---- MODULE Spec2Model ----
(***************************************************************************)
(* SafeURL (typesafe-url): the route-validated wrapper around the          *)
(* platform URL value.  One SafeURL instance is modelled: Init is the      *)
(* state the constructor leaves, every public method is one action.        *)
(*                                                                         *)
(* Strings are TLA+ strings; Len, \o and SubSeq act on them character by   *)
(* character.  The regular expressions of the source are hand-translated   *)
(* into operators over strings, and the platform URL accessors the class   *)
(* assigns to (hash, pathname, username, password) are modelled by the     *)
(* WHATWG URL algorithms they run (percent-encoding, dot segments,         *)
(* leading '#' removal), for https URLs with a host.                        *)
(***************************************************************************)
EXTENDS Naturals, Sequences, FiniteSets

\* ------------------------------------------------------------------ bounds

\* longest string handed to setHash
MaxHashLen == 2
\* most keys in one setSegments argument
MaxArgKeys == 2
\* most calls made on a Logger run on its own
MaxCalls == 2

\* ----------------------------------------------------------------- strings

Ch(s, i) == SubSeq(s, i, i)

StartsWithAt(s, t, i) ==
    /\ i >= 1
    /\ i + Len(t) - 1 <= Len(s)
    /\ SubSeq(s, i, i + Len(t) - 1) = t

EndsWith(s, t) == Len(s) >= Len(t) /\ SubSeq(s, Len(s) - Len(t) + 1, Len(s)) = t

\* least position >= from where c(position) holds, 0 when there is none
FirstPos(s, from, c(_)) ==
    LET hits == {i \in from..Len(s) : c(i)}
    IN  IF hits = {} THEN 0 ELSE CHOOSE i \in hits : \A j \in hits : i <= j

Range(f) == {f[i] : i \in DOMAIN f}

\* String.prototype.split(sep) for a one-character separator
RECURSIVE Split(_, _)
Split(s, sep) ==
    LET p == FirstPos(s, 1, LAMBDA i : Ch(s, i) = sep)
    IN  IF p = 0 THEN <<s>>
        ELSE <<SubSeq(s, 1, p - 1)>> \o Split(SubSeq(s, p + 1, Len(s)), sep)

RECURSIVE Join(_, _)
Join(parts, sep) ==
    IF parts = <<>> THEN ""
    ELSE IF Len(parts) = 1 THEN parts[1]
    ELSE parts[1] \o sep \o Join(Tail(parts), sep)

\* a RouteTemplateValue (string | number), or undefined for an absent key
Str(s) == [t |-> "string", s |-> s, n |-> 0]
Num(n) == [t |-> "number", s |-> "", n |-> n]
Undefined == [t |-> "undefined", s |-> "", n |-> 0]
DigitStr(d) ==
    CASE d = 0 -> "0" [] d = 1 -> "1" [] d = 2 -> "2" [] d = 3 -> "3"
      [] d = 4 -> "4" [] d = 5 -> "5" [] d = 6 -> "6" [] d = 7 -> "7"
      [] d = 8 -> "8" [] d = 9 -> "9"
RECURSIVE NatStr(_)
NatStr(n) == IF n < 10 THEN DigitStr(n) ELSE NatStr(n \div 10) \o DigitStr(n % 10)
\* the text a template literal gives for a value
TemplateStr(v) ==
    CASE v.t = "undefined" -> "undefined"
      [] v.t = "number" -> NatStr(v.n)
      [] OTHER -> v.s

\* ------------------------------------------------- the platform URL value

\* percent-encode sets of the URL standard (the printable ASCII of each set;
\* the grave accent, which no input of the model holds, is left out)
FragmentEncodeSet == {" ", "\"", "<", ">"}
QueryEncodeSet == {" ", "\"", "#", "<", ">"}
PathEncodeSet == QueryEncodeSet \cup {"?", "{", "}"}
UserinfoEncodeSet ==
    PathEncodeSet \cup {"/", ":", ";", "=", "@", "[", "\\", "]", "^", "|"}

PctCode(c) ==
    CASE c = " " -> "%20" [] c = "\"" -> "%22" [] c = "#" -> "%23"
      [] c = "<" -> "%3C" [] c = ">" -> "%3E" [] c = "?" -> "%3F"
      [] c = "{" -> "%7B" [] c = "}" -> "%7D"
      [] c = "/" -> "%2F" [] c = ":" -> "%3A" [] c = ";" -> "%3B"
      [] c = "=" -> "%3D" [] c = "@" -> "%40" [] c = "[" -> "%5B"
      [] c = "\\" -> "%5C" [] c = "]" -> "%5D" [] c = "^" -> "%5E"
      [] c = "|" -> "%7C"
      [] OTHER -> c

RECURSIVE PctEncode(_, _)
PctEncode(s, set) ==
    IF s = "" THEN ""
    ELSE (IF Ch(s, 1) \in set THEN PctCode(Ch(s, 1)) ELSE Ch(s, 1))
         \o PctEncode(SubSeq(s, 2, Len(s)), set)

\* the fragment the hash setter stores for value: "" clears it, one leading
\* '#' is dropped, the rest is percent-encoded
HashSetterFragment(value) ==
    IF value = "" THEN ""
    ELSE PctEncode(IF Ch(value, 1) = "#" THEN SubSeq(value, 2, Len(value)) ELSE value,
                   FragmentEncodeSet)

\* the hash getter: '#' and the fragment, or '' for a null or empty fragment
HashGetter(fragment) == IF fragment = "" THEN "" ELSE "#" \o fragment

\* the path state of the URL parser on the segments of a path: '.' and '..'
\* are resolved, every other segment is percent-encoded and appended
RECURSIVE PathState(_, _)
PathState(segs, path) ==
    IF segs = <<>> THEN path
    ELSE LET buf  == segs[1]
             last == Len(segs) = 1
             next ==
                 IF buf = ".."
                 THEN LET cut == IF path = <<>> THEN path
                                 ELSE SubSeq(path, 1, Len(path) - 1)
                      IN  IF last THEN Append(cut, "") ELSE cut
                 ELSE IF buf = "."
                 THEN IF last THEN Append(path, "") ELSE path
                 ELSE Append(path, PctEncode(buf, PathEncodeSet))
         IN  PathState(Tail(segs), next)

\* one separator for '/' and '\' (a special scheme treats both alike)
RECURSIVE SlashOnly(_)
SlashOnly(s) ==
    IF s = "" THEN ""
    ELSE (IF Ch(s, 1) = "\\" THEN "/" ELSE Ch(s, 1)) \o SlashOnly(SubSeq(s, 2, Len(s)))

\* the pathname a special (https) URL holds after its path is parsed from
\* input in the path start state: one leading separator is skipped
PathnameOf(input) ==
    LET norm == SlashOnly(input)
        rest == IF norm # "" /\ Ch(norm, 1) = "/" THEN SubSeq(norm, 2, Len(norm)) ELSE norm
    IN  "/" \o Join(PathState(Split(rest, "/"), <<>>), "/")

\* the least position >= from of a character of set, 0 when there is none
FirstOf(s, from, set) == FirstPos(s, from, LAMBDA i : Ch(s, i) \in set)
LastOf(s, set) ==
    LET hits == {i \in 1..Len(s) : Ch(s, i) \in set}
    IN  IF hits = {} THEN 0 ELSE CHOOSE i \in hits : \A j \in hits : j <= i

NoURL == [ok |-> FALSE, username |-> "", password |-> "", hostname |-> "",
          port |-> "", protocol |-> "", pathname |-> "", query |-> "",
          fragment |-> ""]

\* path, query and fragment of a URL record, parsed from the text that follows
\* the authority
WithTail(u, tail) ==
    LET h == FirstOf(tail, 1, {"#"})
        beforeHash == IF h = 0 THEN tail ELSE SubSeq(tail, 1, h - 1)
        q == FirstOf(beforeHash, 1, {"?"})
        pathPart == IF q = 0 THEN beforeHash ELSE SubSeq(beforeHash, 1, q - 1)
    IN  [u EXCEPT
           !.pathname = PathnameOf(pathPart),
           !.query = IF q = 0 THEN ""
                     ELSE PctEncode(SubSeq(beforeHash, q + 1, Len(beforeHash)),
                                    QueryEncodeSet \cup {"'"}),
           !.fragment = IF h = 0 THEN ""
                        ELSE PctEncode(SubSeq(tail, h + 1, Len(tail)), FragmentEncodeSet)]

\* new URL(input) for an input that starts with "https://"
ParseAbsolute(input) ==
    LET rest == SubSeq(input, 9, Len(input))
        e == FirstOf(rest, 1, {"/", "\\", "?", "#"})
        authority == IF e = 0 THEN rest ELSE SubSeq(rest, 1, e - 1)
        tail == IF e = 0 THEN "" ELSE SubSeq(rest, e, Len(rest))
        at == LastOf(authority, {"@"})
        userinfo == IF at = 0 THEN "" ELSE SubSeq(authority, 1, at - 1)
        hostport == SubSeq(authority, at + 1, Len(authority))
        c == FirstOf(userinfo, 1, {":"})
        p == FirstOf(hostport, 1, {":"})
        u == [ok |-> TRUE,
              username |-> PctEncode(IF c = 0 THEN userinfo ELSE SubSeq(userinfo, 1, c - 1),
                                     UserinfoEncodeSet),
              password |-> IF c = 0 THEN ""
                           ELSE PctEncode(SubSeq(userinfo, c + 1, Len(userinfo)),
                                          UserinfoEncodeSet),
              hostname |-> IF p = 0 THEN hostport ELSE SubSeq(hostport, 1, p - 1),
              port |-> IF p = 0 THEN "" ELSE SubSeq(hostport, p + 1, Len(hostport)),
              protocol |-> "https:", pathname |-> "", query |-> "", fragment |-> ""]
    IN  IF u.hostname = "" THEN NoURL ELSE WithTail(u, tail)

\* new URL(route, baseUrl) for the routes of the model: an absolute https URL,
\* or a path-absolute reference ('/...') resolved against the base.  baseUrl
\* is NoBase when the option is absent; a relative route then has no parse.
NoBase == "undefined"
URLParse(route, baseUrl) ==
    IF StartsWithAt(route, "https://", 1) THEN ParseAbsolute(route)
    ELSE IF baseUrl = NoBase \/ ~StartsWithAt(baseUrl, "https://", 1) THEN NoURL
    ELSE LET b == ParseAbsolute(baseUrl)
         IN  IF ~b.ok THEN NoURL ELSE WithTail(b, route)

\* the username and password setters: percent-encode the value
UserinfoSetter(value) == PctEncode(value, UserinfoEncodeSet)

\* ------------------------------------------------------ route classifier

\* HASH_REGEXPS.anyHash: /#\*$/u
AnyHashTest(route) == EndsWith(route, "#*")

\* HASH_REGEXPS.certainHash: /#<(.*)>$/u, the place of the leftmost match
CertainHashPos(route) ==
    FirstPos(route, 1, LAMBDA i : /\ StartsWithAt(route, "#<", i)
                                  /\ i + 2 <= Len(route)
                                  /\ Ch(route, Len(route)) = ">")
CertainHashTest(route) == CertainHashPos(route) # 0
\* group 1 of the match
CertainHashGroup(route) == SubSeq(route, CertainHashPos(route) + 2, Len(route) - 1)

\* HASH_REGEXPS.staticHash: /#[^\\*].*$/u: a '#' followed by a character
\* that is neither a backslash nor '*'
StaticHashTest(route) ==
    \E i \in 1..Len(route) - 1 :
        Ch(route, i) = "#" /\ Ch(route, i + 1) \notin {"\\", "*"}

\* SEGMENT_REGEXPS.keys: /\/:([^\\?#\\/]+)($|\?|#|\/)/gu under matchAll: group 1
\* of every match, left to right, each search resuming where the last match
\* ended (after its boundary character)
NameStop == {"\\", "?", "#", "/"}
RECURSIVE SegmentKeyMatches(_, _)
SegmentKeyMatches(route, from) ==
    LET \* end of the greedy name that starts at i + 2 (Len + 1 at end of input)
        nameEnd(i) == LET z == FirstOf(route, i + 2, NameStop)
                      IN  IF z = 0 THEN Len(route) + 1 ELSE z
        m == FirstPos(route, from,
                 LAMBDA i : /\ StartsWithAt(route, "/:", i)
                            /\ nameEnd(i) > i + 2
                            /\ (nameEnd(i) = Len(route) + 1
                                \/ Ch(route, nameEnd(i)) \in {"?", "#", "/"}))
    IN  IF m = 0 THEN <<>>
        ELSE <<SubSeq(route, m + 2, nameEnd(m) - 1)>>
             \o SegmentKeyMatches(route, nameEnd(m) + 1)

\* this.segmentKeys_ as the constructor computes it
SegmentKeysOf(route) == SegmentKeyMatches(route, 1)

\* ------------------------------------------------ segment substitution

\* A plain object is the sequence of its <<key, value>> entries in insertion
\* order (the order Object.keys gives for non-numeric keys).
EmptyObject == <<>>
Keys(obj) == [i \in DOMAIN obj |-> obj[i][1]]
Has(obj, key) == \E i \in DOMAIN obj : obj[i][1] = key
Get(obj, key) ==
    IF Has(obj, key) THEN obj[CHOOSE i \in DOMAIN obj : obj[i][1] = key][2]
    ELSE Undefined
Put(obj, key, value) ==
    IF Has(obj, key)
    THEN [i \in DOMAIN obj |-> IF obj[i][1] = key THEN <<key, value>> ELSE obj[i]]
    ELSE Append(obj, <<key, value>>)
\* { ...a, ...b }
RECURSIVE Spread(_, _)
Spread(a, b) == IF b = <<>> THEN a ELSE Spread(Put(a, b[1][1], b[1][2]), Tail(b))

\* pathname.replace(RegExp('/(:' + key + ')(/|#|\?|$)', 'u'), '/' + value + '$2'):
\* the leftmost '/:key' that a boundary follows becomes '/value', the
\* boundary kept.  Keys and values of the model hold no regular-expression or
\* replacement-pattern characters.
ReplaceSegment(pathname, key, value) ==
    LET pat == "/:" \o key
        m == FirstPos(pathname, 1,
                 LAMBDA i : /\ StartsWithAt(pathname, pat, i)
                            /\ (i + Len(pat) = Len(pathname) + 1
                                \/ Ch(pathname, i + Len(pat)) \in {"/", "#", "?"}))
    IN  IF m = 0 THEN pathname
        ELSE SubSeq(pathname, 1, m - 1) \o "/" \o TemplateStr(value)
             \o SubSeq(pathname, m + Len(pat), Len(pathname))

\* .replace(/(?<=\/[^#\\?]*)((#|\?).*$)/u, ''): cut from the leftmost '#' or
\* '?' that a '/' precedes with no '#', '\' or '?' in between
StripQueryHash(s) ==
    LET j == FirstPos(s, 1,
                 LAMBDA j : /\ Ch(s, j) \in {"#", "?"}
                            /\ \E i \in 1..j - 1 :
                                   /\ Ch(s, i) = "/"
                                   /\ \A k \in i + 1..j - 1 : Ch(s, k) \notin {"#", "\\", "?"})
    IN  IF j = 0 THEN s ELSE SubSeq(s, 1, j - 1)

\* the value interpolated for key: segments[key], read from the argument of
\* the call
SegmentValue(stored, segments, key) == Get(segments, key)

\* keys(this.segments_).reduce(..., this.route_) and the final replace
RECURSIVE ReduceSegments(_, _, _, _)
ReduceSegments(ks, stored, segments, pathname) ==
    IF ks = <<>> THEN pathname
    ELSE ReduceSegments(Tail(ks), stored, segments,
                        ReplaceSegment(pathname, ks[1], SegmentValue(stored, segments, ks[1])))

SubstitutedPath(route, stored, segments) ==
    StripQueryHash(ReduceSegments(Keys(stored), stored, segments, route))

\* -------------------------------------------------------------- SafeURL

VARIABLES
    route_,                 \* the route template
    baseUrl,                \* options.baseUrl given to the constructor, or NoBase
    isStrictModeEnabled_,
    constructed,            \* the constructor returned an instance
    url_,                   \* the URL value the instance owns
    frozen,                 \* the properties of url_ freezeProperty has locked
    segments_,
    segmentKeys_,
    last,                   \* the last call: its name, arguments and outcome
    logs,                   \* the calls the last call made on this.logger_
    logger_,                \* a Logger: its fields, instance_ as the calls the sink got
    called                  \* the calls made on logger_ when it is run on its own

vars == <<route_, baseUrl, isStrictModeEnabled_, constructed, url_, frozen,
          segments_, segmentKeys_, last, logs, logger_, called>>

\* error messages
InvalidURL == "Invalid URL"
InvalidCredentials == "Invalid credentials"
HashNotInCertainSet == "Hash value does not match to certain ones"
HashNotMutable == "Hash value is not mutable"
HashNotAllowed == "Route does not allow hash property"
SegmentsNotAllowed == "Route does not allow segment properties"
SegmentKeyUnknown == "Segment key does not match to certain ones"
ReadOnlyProperty == "Cannot assign to read only property"

\* ScopedError and URLError: the message of an error wrapped under a scope
ScopedMessage(scope, originalMessage) == "[" \o scope \o "] " \o originalMessage
URLErrorMessage(originalMessage) == ScopedMessage("URL", originalMessage)

\* a check of the username alone
areCredentialsValid_UsernameOnly(username, password) ==
    username # "" \/ (username = "" /\ password = "")

areCredentialsValid(username, password) ==
    (username # "" /\ password # "") \/ (username = "" /\ password = "")

Call(op) == [op |-> op, hash |-> "", segments |-> EmptyObject, username |-> "",
             password |-> "", value |-> "", error |-> "", threw |-> FALSE]

LogCall(channel, message) == [channel |-> channel, message |-> message]

\* this.throw_(error): thrown in strict mode, else handed to logger_.traceWarn
ThrowLogs(strict, message) == IF strict THEN <<>> ELSE <<LogCall("warn", message)>>

\* logUnsafeUsage_: the matches of the route minus the keys of segments_
CountOfUnusedSegments(route, stored) == Len(SegmentKeysOf(route)) - Len(Keys(stored))
UnsafeUsageLogs(route, stored) ==
    IF Len(SegmentKeysOf(route)) > Len(Keys(stored))
    THEN <<LogCall("warn", "Some segment values are not set, using the url is unsafe")>>
    ELSE <<>>

\* ---- the Logger

\* options.level: absent, one level, or an array of levels
NoLevel == [t |-> "undefined", levels |-> <<>>]
Level(l) == [t |-> "value", levels |-> <<l>>]
LevelArray(ls) == [t |-> "array", levels |-> ls]
\* options.scope: absent, or a label
NoScope == [isNull |-> TRUE, text |-> ""]
Scope(text) == [isNull |-> FALSE, text |-> text]

LOG_LEVEL_BY_ACTION_KEY == [log |-> "debug", info |-> "info", warn |-> "warn", error |-> "warn"]

ensureArray(value) == value.levels

\* new Logger(options); instance_ is the sink, held as the calls it received
Logger(options) ==
    [instance_ |-> <<>>,
     scope_ |-> options.scope,
     levels_ |-> IF options.level.t = "undefined" THEN <<"all">> ELSE ensureArray(options.level),
     isEnabled_ |-> options.isEnabled]

\* call_(actionKey, ...args): the logger after the call
call_(logger, actionKey, args) ==
    IF "all" \in Range(logger.levels_)
       \/ LOG_LEVEL_BY_ACTION_KEY[actionKey] \in Range(logger.levels_)
    THEN IF logger.isEnabled_
         THEN LET scopedArgs == IF ~logger.scope_.isNull
                                THEN <<"[" \o logger.scope_.text \o "]">> \o args
                                ELSE args
              IN  [logger EXCEPT !.instance_ =
                      Append(@, [channel |-> actionKey, args |-> scopedArgs])]
         ELSE logger
    ELSE logger

\* the Logger the SafeURL constructor builds when options name no logLevel
SafeURLLogger == Logger([scope |-> Scope("Safe URL"), level |-> NoLevel, isEnabled |-> TRUE])

\* ---- the constructor

StrictModeLogs(route, strict) ==
    IF strict THEN <<>>
    ELSE <<LogCall("warn", "Strict mode for route \"" \o route \o "\" is disabled")>>

PathFrozenLogs(route) ==
    IF Len(SegmentKeysOf(route)) <= 0
    THEN <<LogCall("info", "URL pathname value of the route \"" \o route \o "\" is frozen")>>
    ELSE <<>>

HashIsFrozen(route) == ~AnyHashTest(route) /\ ~CertainHashTest(route)

HashFrozenLogs(route) ==
    IF HashIsFrozen(route)
    THEN <<LogCall("info", "URL hash value of the route \"" \o route \o "\" is frozen")>>
    ELSE <<>>

\* the fragment the constructor leaves: cleared unless staticHash matches
ConstructedFragment(route, parsed) ==
    IF ~StaticHashTest(route) THEN HashSetterFragment("") ELSE parsed.fragment

\* a failure that hands back an instance all the same
Failed_HalfBuilt(message, emitted) ==
    /\ constructed = TRUE
    /\ url_ = NoURL
    /\ frozen = {}
    /\ segments_ = EmptyObject
    /\ segmentKeys_ = <<>>
    /\ last = [Call("new") EXCEPT !.error = message]
    /\ logs = emitted \o <<LogCall("warn", message)>>

Failed(message, emitted) ==
    /\ constructed = FALSE
    /\ url_ = NoURL
    /\ frozen = {}
    /\ segments_ = EmptyObject
    /\ segmentKeys_ = <<>>
    /\ last = [Call("new") EXCEPT !.error = message, !.threw = TRUE]
    /\ logs = emitted

\* the constructor with the credentials checked before the strict-mode warning
Built_CredentialsFirst(route, strict, parsed, keys, credsOk) ==
    IF ~credsOk /\ strict
    THEN Failed(InvalidCredentials, <<>>)
    ELSE /\ constructed = TRUE
         /\ url_ = [parsed EXCEPT !.fragment = ConstructedFragment(route, parsed)]
         /\ segmentKeys_ = keys
         /\ segments_ = EmptyObject
         /\ frozen = (IF Len(keys) <= 0 THEN {"pathname"} ELSE {})
                     \cup (IF HashIsFrozen(route) THEN {"hash"} ELSE {})
         /\ last = [Call("new") EXCEPT !.error = IF credsOk THEN "" ELSE InvalidCredentials]
         /\ logs = (IF credsOk THEN <<>> ELSE ThrowLogs(strict, InvalidCredentials))
                   \o StrictModeLogs(route, strict)
                   \o PathFrozenLogs(route)
                   \o HashFrozenLogs(route)

\* steps 3 to 5 of the constructor, on the parsed URL
Built(route, strict, parsed, keys, credsOk) ==
    IF ~credsOk /\ strict
    THEN Failed(InvalidCredentials, StrictModeLogs(route, strict))
    ELSE /\ constructed = TRUE
         /\ url_ = [parsed EXCEPT !.fragment = ConstructedFragment(route, parsed)]
         /\ segmentKeys_ = keys
         /\ segments_ = EmptyObject
         /\ frozen = (IF Len(keys) <= 0 THEN {"pathname"} ELSE {})
                     \cup (IF HashIsFrozen(route) THEN {"hash"} ELSE {})
         /\ last = [Call("new") EXCEPT !.error = IF credsOk THEN "" ELSE InvalidCredentials]
         /\ logs = StrictModeLogs(route, strict)
                   \o (IF credsOk THEN <<>> ELSE ThrowLogs(strict, InvalidCredentials))
                   \o PathFrozenLogs(route)
                   \o HashFrozenLogs(route)

Construct(route, base, strict) ==
    /\ route_ = route
    /\ baseUrl = base
    /\ isStrictModeEnabled_ = strict
    /\ \E parsed \in {URLParse(route, base)} :
           IF ~parsed.ok THEN Failed(InvalidURL, <<>>)
           ELSE \E keys \in {SegmentKeysOf(route)} :
                    Built(route, strict, parsed, keys,
                          areCredentialsValid(parsed.username, parsed.password))

\* ---- the routes and inputs of the model

Routes ==
    { "/a/b", "/a/b#*", "/a/b#<p|q>", "/a/b#<p| >", "/a/b#foo", "/a/b#f o", "/a/b#", "/a/b#<>",
      "/:id/x", "/:a/x/:b", "/:a/:b", "/:a/x/:a", "/:id?x=1#foo",
      "https://h.com/foo/bar", "https://h.com/:id/x" }

\* <<route, options.baseUrl>> of the constructions
Constructions ==
    {<<r, "https://h.com">> : r \in Routes}
    \cup {<<"/a/b", NoBase>>, <<"/:id/x", "h.com">>, <<"/a/b", "https://u@h.com">>, <<"/a/b", "https://u:p@h.com">>}

RECURSIVE StringsUpTo(_, _)
StringsUpTo(alphabet, n) ==
    IF n = 0 THEN {""}
    ELSE LET shorter == StringsUpTo(alphabet, n - 1)
         IN  shorter \cup {s \o c : s \in shorter, c \in alphabet}

HashAlphabet == {"p", "#", " "}
HashInputs == StringsUpTo(HashAlphabet, MaxHashLen) \cup {"q"}

Usernames == {"", "a b"}
Passwords == {"", "p"}

SegmentValues == {Str("x"), Num(5)}
\* the objects with at most n of the keys of pool (a sequence), written in
\* the order of pool
RECURSIVE ObjectsOver(_, _)
ObjectsOver(pool, n) ==
    IF pool = <<>> \/ n = 0 THEN {EmptyObject}
    ELSE ObjectsOver(Tail(pool), n)
         \cup {<<<<pool[1], v>>>> \o o : v \in SegmentValues, o \in ObjectsOver(Tail(pool), n - 1)}
\* the keys a setSegments argument is built from: the route's own, without
\* repetition, and one the route does not name
RECURSIVE Distinct(_)
Distinct(seq) ==
    IF seq = <<>> THEN <<>>
    ELSE LET front == Distinct(SubSeq(seq, 1, Len(seq) - 1))
         IN  IF seq[Len(seq)] \in Range(front) THEN front ELSE Append(front, seq[Len(seq)])
ArgKeyPool(route) ==
    IF SegmentKeysOf(route) = <<>> THEN <<"id">> ELSE Distinct(SegmentKeysOf(route)) \o <<"zz">>
SegmentInputs == [r \in Routes |-> ObjectsOver(ArgKeyPool(r), MaxArgKeys)]

HostInputs == {"h.com"}
PortInputs == {""}
ProtocolInputs == {"https"}

Init ==
    /\ logger_ = SafeURLLogger
    /\ called = <<>>
    /\ \E c \in Constructions, strict \in BOOLEAN : Construct(c[1], c[2], strict)

\* ---- the methods

Fixed == <<route_, baseUrl, isStrictModeEnabled_, constructed, segmentKeys_, frozen,
           logger_, called>>

setCredentials(username, password) ==
    LET ok == areCredentialsValid(username, password)
        aborted == ~ok /\ isStrictModeEnabled_
    IN  /\ constructed
        /\ last' = [Call("setCredentials") EXCEPT
                      !.username = username, !.password = password,
                      !.error = IF ok THEN "" ELSE InvalidCredentials,
                      !.threw = aborted]
        /\ logs' = IF ok THEN <<>> ELSE ThrowLogs(isStrictModeEnabled_, InvalidCredentials)
        /\ url_' = IF aborted THEN url_
                   ELSE [url_ EXCEPT !.username = UserinfoSetter(username),
                                     !.password = UserinfoSetter(password)]
        /\ UNCHANGED <<Fixed, segments_>>

\* setHash with the group of certainHash compared whole, not split at '|'
HashError_Unsplit(route, hash) ==
    IF AnyHashTest(route) THEN ""
    ELSE IF CertainHashTest(route)
    THEN IF hash # CertainHashGroup(route) THEN HashNotInCertainSet ELSE ""
    ELSE IF StaticHashTest(route) THEN HashNotMutable
    ELSE HashNotAllowed

\* setHash without the anyHash branch
HashError_NoAnyHash(route, hash) ==
    IF CertainHashTest(route)
    THEN IF hash \notin Range(Split(CertainHashGroup(route), "|"))
         THEN HashNotInCertainSet ELSE ""
    ELSE IF StaticHashTest(route) THEN HashNotMutable
    ELSE HashNotAllowed

\* setHash that falls through to the assignment when no pattern matches
HashError_FallThrough(route, hash) ==
    IF AnyHashTest(route) THEN ""
    ELSE IF CertainHashTest(route)
    THEN IF hash \notin Range(Split(CertainHashGroup(route), "|"))
         THEN HashNotInCertainSet ELSE ""
    ELSE IF StaticHashTest(route) THEN HashNotMutable
    ELSE ""

\* setHash with the staticHash test left out
HashError_NoStaticHash(route, hash) ==
    IF AnyHashTest(route) THEN ""
    ELSE IF CertainHashTest(route)
    THEN IF hash \notin Range(Split(CertainHashGroup(route), "|"))
         THEN HashNotInCertainSet ELSE ""
    ELSE HashNotAllowed

\* the branch setHash takes: "" when it assigns, else the message of the
\* TypeError it hands to throw_
HashError(route, hash) ==
    IF AnyHashTest(route) THEN ""
    ELSE IF CertainHashTest(route)
    THEN LET certainValues == Split(CertainHashGroup(route), "|")
         IN  IF hash \notin Range(certainValues) THEN HashNotInCertainSet ELSE ""
    ELSE IF StaticHashTest(route) THEN HashNotMutable
    ELSE HashNotAllowed

\* HashError and the hash setter over the routes and inputs of the model,
\* computed once
HashErrors == [r \in Routes |-> [h \in HashInputs |-> HashError(r, h)]]
HashFragments == [h \in HashInputs |-> HashSetterFragment(h)]

\* every failure ends the call; an assignment to a locked property of url_
\* is a TypeError of the runtime
setHash(hash) ==
    LET error == HashErrors[route_][hash]
        locked == error = "" /\ "hash" \in frozen
    IN  /\ constructed
        /\ last' = [Call("setHash") EXCEPT
                      !.hash = hash,
                      !.error = IF locked THEN ReadOnlyProperty ELSE error,
                      !.threw = locked \/ (error # "" /\ isStrictModeEnabled_)]
        /\ logs' = IF error = "" THEN <<>> ELSE ThrowLogs(isStrictModeEnabled_, error)
        /\ url_' = IF error = "" /\ ~locked
                   THEN [url_ EXCEPT !.fragment = HashFragments[hash]]
                   ELSE url_
        /\ UNCHANGED <<Fixed, segments_>>

\* a check that passes as soon as one key is known
areSegmentsValid_SomeKey(segments) ==
    \E i \in DOMAIN segments : segments[i][1] \in Range(segmentKeys_)

areSegmentsValid_(segments) ==
    \A i \in DOMAIN segments : segments[i][1] \in Range(segmentKeys_)

\* setSegments without the test of segmentKeys_.length
SegmentsError_NoLengthTest(segments) ==
    IF ~areSegmentsValid_(segments) THEN SegmentKeyUnknown ELSE ""

\* the branch setSegments takes: "" when it merges, else the message of the
\* TypeError it hands to throw_
SegmentsError(segments) ==
    IF Len(segmentKeys_) <= 0 THEN SegmentsNotAllowed
    ELSE IF ~areSegmentsValid_(segments) THEN SegmentKeyUnknown
    ELSE ""

\* this.segments_ is assigned before url_.pathname is
setSegments(segments) ==
    LET error == SegmentsError(segments)
        merged == Spread(segments_, segments)
        locked == error = "" /\ "pathname" \in frozen
    IN  /\ constructed
        /\ last' = [Call("setSegments") EXCEPT
                      !.segments = segments,
                      !.error = IF locked THEN ReadOnlyProperty ELSE error,
                      !.threw = locked \/ (error # "" /\ isStrictModeEnabled_)]
        /\ logs' = IF error = "" THEN <<>> ELSE ThrowLogs(isStrictModeEnabled_, error)
        /\ segments_' = IF error = "" THEN merged ELSE segments_
        /\ url_' = IF error = "" /\ ~locked
                   THEN [url_ EXCEPT
                           !.pathname = PathnameOf(SubstitutedPath(route_, merged, segments))]
                   ELSE url_
        /\ UNCHANGED Fixed

\* the accessors with no side effect, as operators on the state
getHash == HashGetter(url_.fragment)
getPathnameValue == url_.pathname
getSegments == segments_
getCredentials == [username |-> url_.username, password |-> url_.password]
getHost == IF url_.port = "" THEN url_.hostname ELSE url_.hostname \o ":" \o url_.port

\* getPathname and getHref first run logUnsafeUsage_
getPathname ==
    /\ constructed
    /\ last' = [Call("getPathname") EXCEPT !.value = url_.pathname]
    /\ logs' = UnsafeUsageLogs(route_, segments_)
    /\ UNCHANGED <<Fixed, url_, segments_>>

hrefOf(u) ==
    u.protocol \o "//"
    \o (IF u.username = "" /\ u.password = "" THEN ""
        ELSE u.username \o (IF u.password = "" THEN "" ELSE ":" \o u.password) \o "@")
    \o u.hostname \o (IF u.port = "" THEN "" ELSE ":" \o u.port)
    \o u.pathname
    \o (IF u.query = "" THEN "" ELSE "?" \o u.query)
    \o (IF u.fragment = "" THEN "" ELSE "#" \o u.fragment)

getHref ==
    /\ constructed
    /\ last' = [Call("getHref") EXCEPT !.value = hrefOf(url_)]
    /\ logs' = UnsafeUsageLogs(route_, segments_)
    /\ UNCHANGED <<Fixed, url_, segments_>>

\* the pass-through setters; their inputs are a host name, an empty port and
\* a special scheme, fields no other method reads
setHost(host) ==
    /\ constructed
    /\ last' = [Call("setHost") EXCEPT !.value = host]
    /\ logs' = <<>>
    /\ url_' = [url_ EXCEPT !.hostname = host]
    /\ UNCHANGED <<Fixed, segments_>>

setHostname(hostname) ==
    /\ constructed
    /\ last' = [Call("setHostname") EXCEPT !.value = hostname]
    /\ logs' = <<>>
    /\ url_' = [url_ EXCEPT !.hostname = hostname]
    /\ UNCHANGED <<Fixed, segments_>>

setPort(port) ==
    /\ constructed
    /\ last' = [Call("setPort") EXCEPT !.value = port]
    /\ logs' = <<>>
    /\ url_' = [url_ EXCEPT !.port = port]
    /\ UNCHANGED <<Fixed, segments_>>

setProtocol(protocol) ==
    /\ constructed
    /\ last' = [Call("setProtocol") EXCEPT !.value = protocol]
    /\ logs' = <<>>
    /\ url_' = [url_ EXCEPT !.protocol = protocol \o ":"]
    /\ UNCHANGED <<Fixed, segments_>>

Next ==
    \/ \E username \in Usernames, password \in Passwords : setCredentials(username, password)
    \/ \E hash \in HashInputs : setHash(hash)
    \/ \E segments \in SegmentInputs[route_] : setSegments(segments)
    \/ getPathname
    \/ getHref
    \/ \E host \in HostInputs : setHost(host)
    \/ \E hostname \in HostInputs : setHostname(hostname)
    \/ \E port \in PortInputs : setPort(port)
    \/ \E protocol \in ProtocolInputs : setProtocol(protocol)

Spec == Init /\ [][Next]_vars

\* ---- a Logger on its own: it is built from its options and its five
\* methods are called; no SafeURL is constructed beside it

LevelOptions ==
    {NoLevel} \cup {Level(l) : l \in {"debug", "info", "warn", "error", "all"}}
    \cup {LevelArray(<<"info", "error">>), LevelArray(<<"debug", "warn">>)}
ScopeOptions == {NoScope, Scope("Safe URL")}
ArgInputs == {<<"m">>}
\* new Error().stack: a text, or undefined where the engine gives none
StackInputs == {Str("\n    at f"), Undefined}

NoInstance ==
    /\ route_ = ""
    /\ baseUrl = NoBase
    /\ isStrictModeEnabled_ = TRUE
    /\ Failed(InvalidURL, <<>>)
SafeURLVars == <<route_, baseUrl, isStrictModeEnabled_, constructed, url_, frozen,
                 segments_, segmentKeys_, last, logs>>

LoggerInit ==
    /\ NoInstance
    /\ called = <<>>
    /\ \E level \in LevelOptions, scope \in ScopeOptions, isEnabled \in BOOLEAN :
           logger_ = Logger([scope |-> scope, level |-> level, isEnabled |-> isEnabled])

Called(method, actionKey, args) ==
    /\ Len(called) < MaxCalls
    /\ called' = Append(called, [method |-> method, channel |-> actionKey, args |-> args])
    /\ logger_' = call_(logger_, actionKey, args)
    /\ UNCHANGED SafeURLVars

log(args) == Called("log", "log", args)
info(args) == Called("info", "info", args)
warn(args) == Called("warn", "warn", args)
error(args) == Called("error", "error", args)
traceWarn(args, stack) ==
    IF stack # Undefined
    THEN Called("traceWarn", "warn", args \o <<stack.s>>)
    ELSE Called("traceWarn", "warn", args)

LoggerNext ==
    \/ \E args \in ArgInputs : log(args)
    \/ \E args \in ArgInputs : info(args)
    \/ \E args \in ArgInputs : warn(args)
    \/ \E args \in ArgInputs : error(args)
    \/ \E args \in ArgInputs, stack \in StackInputs : traceWarn(args, stack)

LoggerSpec == LoggerInit /\ [][LoggerNext]_vars

\* ------------------------------------------------------------- the claims

\* the call ended in the failure `message`: thrown in strict mode, handed to
\* the logger's warning channel and not thrown otherwise
FailedWith(message) ==
    /\ last.error = message
    /\ last.threw = isStrictModeEnabled_
    /\ (~isStrictModeEnabled_ => LogCall("warn", message) \in Range(logs))
Succeeded == last.error = "" /\ ~last.threw

\* the pathname the route had when the instance was constructed
RoutePath == URLParse(route_, baseUrl).pathname

\* a path with the first segment ':key' replaced by the text of value, for
\* every entry of the mapping
RECURSIVE FillSegments(_, _)
FillSegments(segs, mapping) ==
    IF mapping = <<>> THEN segs
    ELSE LET name == ":" \o mapping[1][1]
             hits == {i \in DOMAIN segs : segs[i] = name}
             first == IF hits = {} THEN 0 ELSE CHOOSE i \in hits : \A j \in hits : i <= j
         IN  FillSegments([i \in DOMAIN segs |->
                              IF i = first THEN TemplateStr(mapping[1][2]) ELSE segs[i]],
                          Tail(mapping))
ExpectedPath(path, mapping) ==
    "/" \o Join(FillSegments(Split(SubSeq(path, 2, Len(path)), "/"), mapping), "/")

KeysWithin(segments) == \A i \in DOMAIN segments : segments[i][1] \in Range(segmentKeys_)

\* C1: on a route with keys {a, b}, setSegments({a: x}) followed by
\* setSegments({b: y}) both succeed and leave the route's path with :a
\* replaced by x and :b replaced by y.
C1_MergedCallsSubstituteBoth ==
    [][ ( /\ Range(segmentKeys_) = {"a", "b"}
          /\ last.op = "setSegments" /\ Succeeded
          /\ Keys(last.segments) = <<"a">>
          /\ last'.op = "setSegments"
          /\ Keys(last'.segments) = <<"b">> )
        => ( /\ last'.error = ""
             /\ url_'.pathname = ExpectedPath(RoutePath,
                                     <<last.segments[1], last'.segments[1]>>) ) ]_vars

\* C2: in non-strict mode every core failure is not thrown and leaves the
\* field the call targets (hash; pathname and segments; username and
\* password) as it was before the call.
HashFailures == {HashNotAllowed, HashNotMutable, HashNotInCertainSet}
SegmentFailures == {SegmentsNotAllowed, SegmentKeyUnknown}
C2_NonStrictFailureChangesNothing ==
    [][ (~isStrictModeEnabled_ /\ last'.error # "")
        => ( /\ ~last'.threw
             /\ (last'.op = "setHash" /\ last'.error \in HashFailures
                    => url_'.fragment = url_.fragment)
             /\ (last'.op = "setSegments" /\ last'.error \in SegmentFailures
                    => url_'.pathname = url_.pathname /\ segments_' = segments_)
             /\ (last'.op = "setCredentials" /\ last'.error = InvalidCredentials
                    => /\ url_'.username = url_.username
                       /\ url_'.password = url_.password) ) ]_vars

\* C3: on a route with keys K, setSegments(m) with a key of m outside K fails
\* with 'Segment key does not match to certain ones' and changes neither the
\* stored segments nor the pathname, in strict and in non-strict mode.
C3_UnknownKeyRejectsWholeCall ==
    [][ ( /\ segmentKeys_ # <<>>
          /\ last'.op = "setSegments"
          /\ \E i \in DOMAIN last'.segments : last'.segments[i][1] \notin Range(segmentKeys_) )
        => ( /\ last'.error = SegmentKeyUnknown
             /\ last'.threw = isStrictModeEnabled_
             /\ (~isStrictModeEnabled_ => LogCall("warn", SegmentKeyUnknown) \in Range(logs'))
             /\ segments_' = segments_
             /\ url_'.pathname = url_.pathname ) ]_vars
\* a rejected call that also named a key of K, after values were stored
C3_Witness ==
    /\ last.op = "setSegments" /\ last.error = SegmentKeyUnknown
    /\ segments_ # EmptyObject
    /\ \E i \in DOMAIN last.segments : last.segments[i][1] \in Range(segmentKeys_)

\* C4: for every route with keys K and every m with keys(m) within K, a
\* single setSegments(m) succeeds and leaves the route's path with each :k
\* of m replaced by m[k], the query and hash of the route stripped.
C4_SingleCallSubstitutes ==
    ( /\ constructed /\ segmentKeys_ # <<>>
      /\ last.op = "setSegments" /\ KeysWithin(last.segments)
      /\ segments_ = last.segments )
    => ( /\ Succeeded
         /\ url_.pathname = ExpectedPath(RoutePath, last.segments) )

\* C5: on a route with no ':name' segment every setSegments call fails with
\* 'Route does not allow segment properties' and the pathname stays the one
\* the constructor left.
NoPlaceholder(route) == \A i \in 1..Len(route) : ~StartsWithAt(route, "/:", i)
C5_NoSegmentsRouteKeepsPath ==
    (constructed /\ NoPlaceholder(route_))
    => ( /\ url_.pathname = RoutePath
         /\ (last.op = "setSegments" => FailedWith(SegmentsNotAllowed)) )
\* scenario 5 of the spec: non-strict, '/a/b', setSegments({id: 5})
C5_Witness ==
    /\ route_ = "/a/b" /\ ~isStrictModeEnabled_
    /\ last.op = "setSegments" /\ last.segments = <<<<"id", Num(5)>>>>
    /\ ~last.threw /\ url_.pathname = "/a/b"

\* the text getHash returns after url.hash = v: one leading '#' of v is
\* dropped, the characters of the fragment percent-encode set are encoded,
\* and an empty fragment reads as ''
ShownHash(v) ==
    LET body == IF v # "" /\ Ch(v, 1) = "#" THEN SubSeq(v, 2, Len(v)) ELSE v
    IN  IF body = "" THEN "" ELSE "#" \o PctEncode(body, FragmentEncodeSet)
PlainHash(v) ==
    /\ v # "" /\ Ch(v, 1) # "#"
    /\ \A i \in 1..Len(v) : Ch(v, i) \notin FragmentEncodeSet
ExactlyOne(username, password) == (username = "") # (password = "")
PlainUserinfo(v) == \A i \in 1..Len(v) : Ch(v, i) \notin UserinfoEncodeSet
ParsedCredentialsBad ==
    ExactlyOne(URLParse(route_, baseUrl).username, URLParse(route_, baseUrl).password)

\* C6 as the specification words it: exactly one of username and password
\* non-empty fails with 'Invalid credentials' at construction and in
\* setCredentials, every other pair succeeds, and after a successful
\* setCredentials getCredentials() returns the pair that was set.
C6_Original ==
    /\ (last.op = "new" /\ URLParse(route_, baseUrl).ok
           => IF ParsedCredentialsBad THEN FailedWith(InvalidCredentials) ELSE Succeeded)
    /\ (last.op = "setCredentials"
           => IF ExactlyOne(last.username, last.password)
              THEN FailedWith(InvalidCredentials)
              ELSE /\ Succeeded
                   /\ getCredentials = [username |-> last.username,
                                        password |-> last.password])

\* C6: exactly one of username and password non-empty fails with 'Invalid
\* credentials' at construction and in setCredentials, every other pair
\* succeeds, and after a successful setCredentials getCredentials() returns
\* the pair with the characters of the userinfo percent-encode set encoded:
\* the pair itself when it holds no such character, 'a%20b' for 'a b'.
C6_CredentialsChecked ==
    /\ (last.op = "new" /\ URLParse(route_, baseUrl).ok
           => IF ParsedCredentialsBad
              THEN FailedWith(InvalidCredentials) /\ constructed = ~isStrictModeEnabled_
              ELSE Succeeded /\ constructed)
    /\ (last.op = "setCredentials"
           => IF ExactlyOne(last.username, last.password)
              THEN FailedWith(InvalidCredentials)
              ELSE /\ Succeeded
                   /\ getCredentials = [username |-> PctEncode(last.username, UserinfoEncodeSet),
                                        password |-> PctEncode(last.password, UserinfoEncodeSet)]
                   /\ (PlainUserinfo(last.username) => getCredentials.username = last.username)
                   /\ (PlainUserinfo(last.password) => getCredentials.password = last.password)
                   /\ (last.username = "a b" => getCredentials.username = "a%20b"))
\* a pair with a space set and read back encoded
C6_Witness ==
    /\ last.op = "setCredentials" /\ Succeeded
    /\ last.username = "a b" /\ last.password = "p"
    /\ getCredentials = [username |-> "a%20b", password |-> "p"]

\* the values a route ending in #<a|b|c> enumerates
EnumeratedValues(route) == Range(Split(CertainHashGroup(route), "|"))
OnCertainSet == constructed /\ CertainHashTest(route_)

\* C7 as the specification words it: on a route ending in #<a|b|c>,
\* setHash(v) succeeds exactly when v is enumerated, and getHash() is then
\* '#' followed by v.
C7_Original ==
    (OnCertainSet /\ last.op = "setHash")
    => ( /\ Succeeded <=> last.hash \in EnumeratedValues(route_)
         /\ (Succeeded => getHash = "#" \o last.hash) )

\* C7: on a route ending in #<a|b|c>, setHash(v) succeeds exactly when v is
\* one of the strings the text between '<' and '>' splits into at '|', and
\* fails with 'Hash value does not match to certain ones' otherwise; after
\* a success getHash() is '#' followed by v when v is non-empty, does not
\* start with '#' and has no character of the fragment percent-encode set,
\* is '' when v is empty, and in general is the URL's reading of v.
C7_CertainSetMembership ==
    (OnCertainSet /\ last.op = "setHash")
    => ( /\ Succeeded <=> last.hash \in EnumeratedValues(route_)
         /\ (~Succeeded => FailedWith(HashNotInCertainSet))
         /\ (Succeeded => getHash = ShownHash(last.hash))
         /\ (Succeeded /\ PlainHash(last.hash) => getHash = "#" \o last.hash)
         /\ (Succeeded /\ last.hash = "" => getHash = "") )
\* the second enumerated value set on '/a/b#<p|q>'
C7_Witness ==
    /\ route_ = "/a/b#<p|q>"
    /\ last.op = "setHash" /\ last.hash = "q" /\ Succeeded
    /\ getHash = "#q"

\* C8: on a route ending in #<a|b|c> getHash() is '' at construction and
\* stays '' until a setHash succeeds, and a setHash(v) with v not
\* enumerated fails with 'Hash value does not match to certain ones' and
\* leaves getHash() as it was.
C8_CertainSetStartsEmpty ==
    /\ (OnCertainSet => getHash = "")
    /\ [][ (OnCertainSet /\ last'.op = "setHash"
              /\ last'.hash \notin EnumeratedValues(route_))
           => (last'.error = HashNotInCertainSet /\ getHash' = getHash) ]_vars
    /\ [][ (OnCertainSet /\ getHash = "" /\ ~(last'.op = "setHash" /\ last'.error = ""))
           => getHash' = "" ]_vars

\* C9 as the specification words it: on a route ending in #*, setHash(v)
\* succeeds for every string v and getHash() is then '#' followed by v,
\* '#' alone for the empty v.
C9_Original ==
    (constructed /\ AnyHashTest(route_) /\ last.op = "setHash")
    => (Succeeded /\ getHash = "#" \o last.hash)

\* C9: on a route ending in #*, setHash(v) succeeds for every string v, in
\* every state; getHash() is then '#' followed by v when v is non-empty,
\* does not start with '#' and has no character of the fragment
\* percent-encode set; it is '' for the empty v and for '#', and in general
\* '#' followed by v without one leading '#' and with those characters
\* percent-encoded.
C9_AnyHashAccepted ==
    (constructed /\ AnyHashTest(route_) /\ last.op = "setHash")
    => ( /\ Succeeded
         /\ getHash = ShownHash(last.hash)
         /\ (PlainHash(last.hash) => getHash = "#" \o last.hash)
         /\ (last.hash \in {"", "#"} => getHash = "")
         /\ (last.hash = " " => getHash = "#%20") )
\* the empty string set on a route ending in #*: getHash() reads ''
C9_Witness ==
    /\ AnyHashTest(route_)
    /\ last.op = "setHash" /\ last.hash = "" /\ Succeeded
    /\ getHash = ""

\* C10: on a route with no '#', getHash() is '' in every reachable state
\* and every setHash call fails with 'Route does not allow hash property'.
NoHashMarker(route) == \A i \in 1..Len(route) : Ch(route, i) # "#"
C10_NoHashRouteStaysEmpty ==
    (constructed /\ NoHashMarker(route_))
    => ( /\ getHash = ""
         /\ (last.op = "setHash" => FailedWith(HashNotAllowed)) )
\* a strict-mode setHash thrown on a route with segments already set
C10_Witness ==
    /\ NoHashMarker(route_) /\ isStrictModeEnabled_
    /\ last.op = "setHash" /\ last.threw /\ last.error = HashNotAllowed
    /\ segments_ # EmptyObject

\* the text of the route after its first '#'
HashSuffix(route) ==
    LET marks == {i \in 1..Len(route) : Ch(route, i) = "#"}
        first == CHOOSE i \in marks : \A j \in marks : i <= j
    IN  IF marks = {} THEN "" ELSE SubSeq(route, first + 1, Len(route))
\* a route that ends in a literal hash: not #*, not #<...>, and not a bare #
OnLiteralHash ==
    /\ constructed
    /\ ~AnyHashTest(route_) /\ ~CertainHashTest(route_)
    /\ HashSuffix(route_) # ""

\* C11 as the specification words it: on a route that ends in a literal
\* hash, getHash() is '#' with that literal in every reachable state and
\* every setHash fails with 'Hash value is not mutable'.
C11_Original ==
    OnLiteralHash
    => ( /\ getHash = "#" \o HashSuffix(route_)
         /\ (last.op = "setHash" => FailedWith(HashNotMutable)) )

\* C11: on a route that ends in a literal hash, getHash() is in every
\* reachable state '#' with the literal as the URL parser stores it: the
\* characters of the fragment percent-encode set percent-encoded ('#f%20o'
\* for the route '/a/b#f o'), the literal itself when it has none ('#foo');
\* every setHash fails with 'Hash value is not mutable'.
C11_LiteralHashImmutable ==
    OnLiteralHash
    => ( /\ getHash = "#" \o PctEncode(HashSuffix(route_), FragmentEncodeSet)
         /\ (PlainHash(HashSuffix(route_)) => getHash = "#" \o HashSuffix(route_))
         /\ (last.op = "setHash" => FailedWith(HashNotMutable)) )
\* a non-strict setHash refused on '/a/b#foo', the hash still '#foo'
C11_Witness ==
    /\ route_ = "/a/b#foo" /\ ~isStrictModeEnabled_
    /\ last.op = "setHash" /\ last.hash = "q" /\ last.error = HashNotMutable
    /\ getHash = "#foo"

\* C12: on a route that ends in a bare '#', getHash() is '' and every
\* setHash fails with 'Hash value is not mutable'.
OnBareHash == constructed /\ route_ # "" /\ HashSuffix(route_) = "" /\ EndsWith(route_, "#")
C12_BareHashIsStatic ==
    OnBareHash
    => ( /\ getHash = ""
         /\ (last.op = "setHash" => FailedWith(HashNotMutable)) )

\* C18: on a route ending in '#<>' every setHash(v) fails with 'Hash value
\* does not match to certain ones' and getHash() is '' in every reachable
\* state.
C18_EmptyListRejectsAll ==
    (constructed /\ EndsWith(route_, "#<>"))
    => ( /\ getHash = ""
         /\ (last.op = "setHash" => FailedWith(HashNotInCertainSet)) )

ParseFails == ~URLParse(route_, baseUrl).ok
NothingBuilt ==
    /\ ~constructed /\ url_ = NoURL /\ segments_ = EmptyObject /\ frozen = {}
    /\ last.op = "new" /\ last.threw /\ logs = <<>>

\* C13 as the specification words it: a route that does not parse against
\* the base makes construction fail in both modes with no instance, the
\* error's message being '[URL] ' followed by the parser's message.
C13_Original ==
    ParseFails => (NothingBuilt /\ last.error = URLErrorMessage(InvalidURL))

\* C13: a route that does not parse against the base makes construction
\* fail in strict and in non-strict mode: the parser's error is thrown as
\* it is (message 'Invalid URL', no '[URL] ' prefix), nothing is logged and
\* no instance exists, so no later call happens.
C13_ParseFailureThrown ==
    ParseFails => (NothingBuilt /\ last.error = InvalidURL)
\* a relative route with no baseUrl, strict mode off
C13_Witness ==
    /\ baseUrl = NoBase /\ route_ = "/a/b" /\ ~isStrictModeEnabled_
    /\ ~constructed /\ last.threw /\ last.error = "Invalid URL"

\* the severity of a level, and of the level a channel stands for
Severity == [debug |-> 1, info |-> 2, warn |-> 3, error |-> 4]
ChannelLevel == [log |-> "debug", info |-> "info", warn |-> "warn", error |-> "error"]
\* the configured minimum level of a Logger given one level or none
ConfiguredLevel == logger_.levels_[1]
AtLeastConfigured(call) ==
    /\ logger_.isEnabled_
    /\ \/ ConfiguredLevel = "all"
       \/ Severity[ChannelLevel[call.channel]] >= Severity[ConfiguredLevel]
Channels(calls) == [i \in DOMAIN calls |-> calls[i].channel]

\* C14: with one configured level, the calls that reach the sink are
\* exactly the calls made while the logger is enabled whose channel is at
\* least as severe as the level (every call for 'all'); none when disabled.
C14_MinimumLevelFilter ==
    Len(logger_.levels_) = 1
    => Channels(logger_.instance_) = Channels(SelectSeq(called, AtLeastConfigured))

\* the names that follow '/:' in a route and run up to '/', '#', '?' or the
\* end of the route, in order of appearance; the '/' that ends one name may
\* start the next placeholder
NameAt(route, i) ==
    LET stops == {j \in (i + 2)..Len(route) : Ch(route, j) \in {"/", "#", "?"}}
        stop == IF stops = {} THEN Len(route) + 1
                ELSE CHOOSE j \in stops : \A k \in stops : j <= k
    IN  SubSeq(route, i + 2, stop - 1)
RECURSIVE NamesFrom(_, _)
NamesFrom(route, i) ==
    IF i > Len(route) THEN <<>>
    ELSE (IF StartsWithAt(route, "/:", i) /\ NameAt(route, i) # ""
          THEN <<NameAt(route, i)>> ELSE <<>>)
         \o NamesFrom(route, i + 1)
RECURSIVE Unique(_)
Unique(names) ==
    IF names = <<>> THEN <<>>
    ELSE LET front == Unique(SubSeq(names, 1, Len(names) - 1))
             name == names[Len(names)]
         IN  IF name \in Range(front) THEN front ELSE Append(front, name)

\* C15: the segment keys computed at construction are the unique non-empty
\* names that follow '/:' in the route, in order of appearance: a and b
\* for '/:a/:b', and a once for a name that occurs twice.
C15_KeysAreUniqueNames ==
    constructed => segmentKeys_ = Unique(NamesFrom(route_, 1))

UnsafeWarning == LogCall("warn", "Some segment values are not set, using the url is unsafe")
SomeKeyUnset == \E k \in Range(segmentKeys_) : ~Has(segments_, k)

\* C16: every getHref() and getPathname() call emits the 'unsafe' warning
\* exactly when some segment key of the route has no value in the mapping;
\* the call does not fail and changes neither the URL nor the mapping.
C16_UnsafeWarningIffKeyUnset ==
    [][ last'.op \in {"getHref", "getPathname"}
        => ( /\ (UnsafeWarning \in Range(logs')) <=> SomeKeyUnset
             /\ last'.error = "" /\ ~last'.threw
             /\ url_' = url_ /\ segments_' = segments_ ) ]_vars

\* position of an entry in logs, 0 when it is absent
LogPos(entry) ==
    LET hits == {i \in DOMAIN logs : logs[i] = entry}
    IN  IF hits = {} THEN 0 ELSE CHOOSE i \in hits : \A j \in hits : i <= j
StrictOffWarning == LogCall("warn", "Strict mode for route \"" \o route_ \o "\" is disabled")
CredentialsWarning == LogCall("warn", "Invalid credentials")
PathLockInfo ==
    LogCall("info", "URL pathname value of the route \"" \o route_ \o "\" is frozen")
HashLockInfo ==
    LogCall("info", "URL hash value of the route \"" \o route_ \o "\" is frozen")
NoInfoLogged == \A i \in DOMAIN logs : logs[i].channel # "info"

\* C17: right after a construction whose route parsed, the log holds, in
\* this order: the strict-mode-disabled warning (exactly when strict mode
\* is off), the 'Invalid credentials' warning (non-strict, invalid pair),
\* the path lock's info (exactly when the key set is empty and the path is
\* locked), the hash lock's info (exactly when the route ends neither in #*
\* nor in #<...> and the hash is locked); in strict mode an invalid pair
\* throws with no instance, no lock and no info log.
C17_ConstructionOrder ==
    (last.op = "new" /\ ~ParseFails)
    => ( /\ (LogPos(StrictOffWarning) = 1) <=> ~isStrictModeEnabled_
         /\ (isStrictModeEnabled_ => LogPos(StrictOffWarning) = 0)
         /\ (LogPos(CredentialsWarning) = 2) <=> (ParsedCredentialsBad /\ ~isStrictModeEnabled_)
         /\ (LogPos(CredentialsWarning) \in {0, 2})
         /\ (ParsedCredentialsBad /\ isStrictModeEnabled_
                => /\ ~constructed /\ last.threw /\ last.error = InvalidCredentials
                   /\ frozen = {} /\ NoInfoLogged)
         /\ (constructed
                => /\ ("pathname" \in frozen) <=> (segmentKeys_ = <<>>)
                   /\ ("pathname" \in frozen) <=> (LogPos(PathLockInfo) > 0)
                   /\ ("hash" \in frozen)
                         <=> (~AnyHashTest(route_) /\ ~CertainHashTest(route_))
                   /\ ("hash" \in frozen) <=> (LogPos(HashLockInfo) > 0)
                   /\ \A i, j \in DOMAIN logs :
                         (logs[i].channel = "warn" /\ logs[j].channel = "info") => i < j
                   /\ (LogPos(PathLockInfo) > 0 /\ LogPos(HashLockInfo) > 0
                          => LogPos(PathLockInfo) < LogPos(HashLockInfo))) )
\* non-strict construction over a base with a username and no password:
\* both warnings, then both info logs
C17_Witness ==
    /\ last.op = "new" /\ constructed /\ ~isStrictModeEnabled_
    /\ ParsedCredentialsBad
    /\ logs = <<StrictOffWarning, CredentialsWarning, PathLockInfo, HashLockInfo>>

====
